---------------------------- MODULE Spec2Model ----------------------------
(***************************************************************************)
(* A model of orbit's planning engine: the design-unit graph built from    *)
(* the VHDL symbols of an IP's files (Plan::build_full_graph), the         *)
(* selection of the top and the bench (Plan::run, Plan::detect_top), the   *)
(* minimal topological order and the blueprint rows, and the dependency    *)
(* resolver over the catalog (Plan::construct_rough_build_list,            *)
(* IpLevel::get_target_version).                                           *)
(***************************************************************************)
EXTENDS Integers, Sequences, FiniteSets, TLC

VARIABLES
    pc,             \* position inside Plan::run
    plan,           \* the Plan struct: top, bench, clean, force (command-line options)
    files,          \* the IP's source files, each with its parsed symbols
    graph_map,      \* the unit graph of the current IP (line 332)
    natural_top,    \* Plan::run's natural_top (0 = None)
    bench,          \* Plan::run's bench (0 = None)
    top,            \* Plan::run's top (0 = not selected)
    outcome,        \* how the invocation ended: running, ok, an error, a panic
    min_order,      \* the minimal topological order (node indices)
    blueprint,      \* blueprint_data: the HDL rows in emission order
    target,         \* the target IP (name, version, dependencies)
    catalog,        \* the catalog: an IpLevel per known name
    processing,     \* the resolver's work stack
    result,         \* the resolver's result list
    lockfile,       \* Orbit.lock on disk
    build_dir,      \* whether the build directory exists
    blueprint_file, \* blueprint.tsv on disk
    env_file,       \* the .env sidecar on disk
    cache,          \* the cache directory: what is installed of each name and version
    slot,           \* a cache slot on its way to a directory name and back
    parser,         \* VHDL text on its way through the parser
    lookup          \* a version sought in one IpLevel of the catalog

vars == <<pc, plan, files, graph_map, natural_top, bench, top, outcome,
          min_order, blueprint, target, catalog, processing, result,
          lockfile, build_dir, blueprint_file, env_file, cache, slot, parser, lookup>>

selectVars == <<natural_top, bench, top>>
resolveVars == <<processing, result>>
inputVars == <<plan, files, target, catalog, cache, slot, parser, lookup>>
diskVars == <<lockfile, build_dir, blueprint_file, env_file>>

-----------------------------------------------------------------------------
(* Bounds of the model *)

\* number of source files of the IP
MaxFiles == 2
\* number of units one design unit may name (instantiations, references)
MaxUses == 2
\* number of IPs the resolver appends to its result before the model stops it
MaxBuild == 4

-----------------------------------------------------------------------------
(* Generic helpers *)

RECURSIVE FoldLeft(_, _, _)
FoldLeft(Op(_, _), acc, s) ==
    IF s = <<>> THEN acc ELSE FoldLeft(Op, Op(acc, Head(s)), Tail(s))

Range(s) == {s[i] : i \in DOMAIN s}

Contains(s, x) == \E i \in DOMAIN s : s[i] = x

\* position of the first occurrence of x in s (0 when absent)
IndexOf(s, x) ==
    IF Contains(s, x) THEN CHOOSE i \in DOMAIN s : s[i] = x /\ \A j \in 1..(i-1) : s[j] # x
    ELSE 0

\* the members of the set S of naturals, ascending
RECURSIVE SortedSeq(_)
SortedSeq(S) ==
    IF S = {} THEN <<>>
    ELSE LET m == CHOOSE x \in S : \A y \in S : x <= y
         IN <<m>> \o SortedSeq(S \ {m})

-----------------------------------------------------------------------------
(* VHDL symbols: core/vhdl/symbol.rs *)

Idens == <<"a", "b", "c">>
IdenSet == Range(Idens)
NoIden == ""

Sym(kind, name, owner, ports, edges, refs) ==
    [kind |-> kind, name |-> name, owner |-> owner, ports |-> ports,
     edges |-> edges, refs |-> refs]

ResReference(prefix, suffix) == [prefix |-> prefix, suffix |-> suffix]

\* VHDLSymbol::as_iden: None ("") for a package body
as_iden(sym) == IF sym.kind = "package_body" THEN NoIden ELSE sym.name

\* a faulty as_entity that takes every unit for an entity
as_entity_any(sym) == TRUE

\* VHDLSymbol::as_entity is Some
as_entity(sym) == sym.kind = "entity"

\* a faulty is_testbench with the test inverted
is_testbench_with_ports(sym) == sym.ports # <<>>

\* a faulty is_testbench that never recognises a testbench
is_testbench_never(sym) == FALSE

\* Entity::is_testbench: the port list is empty
is_testbench(sym) == sym.ports = <<>>

\* VHDLSymbol::add_refs: append the references
add_refs(sym, refs) == [sym EXCEPT !.refs = @ \o refs]

\* SubUnit::get_entity, get_edges, get_refs
get_entity(sub) == sub.owner
get_edges(sub) == sub.edges
get_refs(sym) == sym.refs

-----------------------------------------------------------------------------
(* The unit graph: util/graphmap (GraphMap), commands/plan.rs (GraphNode) *)

EmptyGraph == [keys |-> <<>>, nodes |-> <<>>, edges |-> {}, panicked |-> FALSE]

GraphNode_new(sym, file) == [sym |-> sym, files |-> <<file>>]

\* GraphNode::add_file: push unless already held
add_file(node, ipf) ==
    IF Contains(node.files, ipf) THEN node ELSE [node EXCEPT !.files = Append(@, ipf)]

\* GraphMap::get_node_by_key: the node's index, 0 for None
get_node_by_key(g, key) == IndexOf(g.keys, key)

\* GraphMap::add_node: a new key gets the next index; an existing key keeps its
\* unit and merges the files (first-seen order)
add_node(g, key, node) ==
    LET i == get_node_by_key(g, key) IN
    IF i = 0
    THEN [g EXCEPT !.keys = Append(@, key), !.nodes = Append(@, node)]
    ELSE [g EXCEPT !.nodes[i] = FoldLeft(add_file, @, node.files)]

\* GraphMap::add_edge_by_key: add the edge iff both keys resolve; duplicate
\* edges collapse
add_edge_by_key(g, from, to) ==
    LET s == get_node_by_key(g, from)
        t == get_node_by_key(g, to)
    IN IF s = 0 \/ t = 0 THEN g ELSE [g EXCEPT !.edges = @ \cup {<<s, t>>}]

NodeIds(g) == 1..Len(g.keys)

\* Graph::successors, Graph::predecessors, in index order
successors(g, n) == SortedSeq({m \in NodeIds(g) : <<n, m>> \in g.edges})
predecessors(g, n) == SortedSeq({m \in NodeIds(g) : <<m, n>> \in g.edges})

\* the roots: nodes with no outgoing edge (depended on by nothing)
Roots(g) == SortedSeq({n \in NodeIds(g) : ~ \E m \in NodeIds(g) : <<n, m>> \in g.edges})


\* GraphMap::find_root: Ok(single root) or Err(list of the roots)
find_root(g) ==
    LET r == Roots(g) IN
    IF Len(r) = 1 THEN [ok |-> TRUE, node |-> r[1], list |-> <<>>]
    ELSE [ok |-> FALSE, node |-> 0, list |-> r]

-----------------------------------------------------------------------------
(* Plan::build_full_graph *)

\* the (symbol, file) pairs of the files, in reading order
SymbolsOf(fs) ==
    FoldLeft(LAMBDA acc, f :
                acc \o [i \in DOMAIN f.symbols |-> [sym |-> f.symbols[i], file |-> f.path]],
             <<>>, fs)

IsPrimaryNode(sym) == sym.kind \in {"entity", "package", "context"}
IsSubUnit(sym) == sym.kind \in {"architecture", "configuration"}

\* lines 243-274: entities, packages and contexts become nodes
AddPrimaryNodes(g, pairs) ==
    FoldLeft(LAMBDA acc, e :
                IF IsPrimaryNode(e.sym)
                THEN add_node(acc, as_iden(e.sym), GraphNode_new(e.sym, e.file))
                ELSE acc,
             g, pairs)

\* lines 253-260: architectures and configurations are kept as sub-unit nodes
SubNodes(pairs) == SelectSeq(pairs, LAMBDA e : IsSubUnit(e.sym))

\* lines 262-265: package bodies are kept (without their file)
Bodies(pairs) ==
    LET b == SelectSeq(pairs, LAMBDA e : e.sym.kind = "package_body")
    IN [i \in DOMAIN b |-> b[i].sym]

\* lines 276-284: a body's references go to its package, if the package is a node
LinkBodies(g, bodies) ==
    FoldLeft(LAMBDA acc, pb :
                LET i == get_node_by_key(acc, pb.owner) IN
                IF i = 0 THEN acc
                ELSE [acc EXCEPT !.nodes[i].sym = add_refs(@, pb.refs)],
             g, bodies)

\* lines 286-301: every sub-unit adds its file to the owner (which must be a
\* node: the lookup is unwrapped) and an edge dep -> owner per edge and reference
LinkSubNodes(g, subs) ==
    FoldLeft(LAMBDA acc, node :
                LET i == get_node_by_key(acc, get_entity(node.sym)) IN
                IF acc.panicked THEN acc
                ELSE IF i = 0 THEN [acc EXCEPT !.panicked = TRUE]
                ELSE LET g1 == [acc EXCEPT !.nodes[i] = add_file(@, node.file)]
                         g2 == FoldLeft(LAMBDA h, dep : add_edge_by_key(h, dep, get_entity(node.sym)),
                                        g1, get_edges(node.sym))
                     IN FoldLeft(LAMBDA h, rr : add_edge_by_key(h, rr.suffix, get_entity(node.sym)),
                                 g2, get_refs(node.sym)),
             g, subs)

\* a faulty linking that looks a reference up by its prefix
LinkReferences_by_prefix(g) ==
    FoldLeft(LAMBDA acc, i :
                FoldLeft(LAMBDA h, rr : add_edge_by_key(h, rr.prefix, acc.keys[i]),
                         acc, get_refs(acc.nodes[i].sym)),
             g, [i \in NodeIds(g) |-> i])

\* lines 303-311: every node gets an edge from each node its references name
LinkReferences(g) ==
    FoldLeft(LAMBDA acc, i :
                FoldLeft(LAMBDA h, rr : add_edge_by_key(h, rr.suffix, acc.keys[i]),
                         acc, get_refs(acc.nodes[i].sym)),
             g, [i \in NodeIds(g) |-> i])

build_full_graph(fs) ==
    LET pairs == SymbolsOf(fs)
        g1 == AddPrimaryNodes(EmptyGraph, pairs)
        g2 == LinkBodies(g1, Bodies(pairs))
        g3 == LinkSubNodes(g2, SubNodes(pairs))
    IN IF g3.panicked THEN g3 ELSE LinkReferences(g3)

-----------------------------------------------------------------------------
(* Plan::run: selection of the bench and the top (lines 334-413) *)

NoError == [kind |-> "", iden |-> NoIden, list |-> <<>>]
PlanError(kind, iden) == [kind |-> kind, iden |-> iden, list |-> <<>>]
\* a faulty Ambiguous that reports the first candidate only
Ambiguous_first(g, nodes) ==
    [kind |-> "Ambiguous", iden |-> "testbenches", list |-> <<g.keys[nodes[1]]>>]

Ambiguous(g, nodes) ==
    [kind |-> "Ambiguous", iden |-> "testbenches", list |-> [i \in DOMAIN nodes |-> g.keys[nodes[i]]]]

Running == [status |-> "running", err |-> NoError]
Success == [status |-> "ok", err |-> NoError]
Failed(e) == [status |-> "error", err |-> e]
Panicked == [status |-> "panic", err |-> NoError]

\* lines 335-376: the bench named by --bench, or else (without --top) the single
\* root if it is a testbench; natural_top is the single root if it has ports
SelectBench(g, p) ==
    IF p.bench # NoIden
    THEN LET n == get_node_by_key(g, p.bench) IN
         IF n = 0
         THEN [res |-> Failed(PlanError("UnknownEntity", p.bench)), bench |-> 0, natural_top |-> 0]
         ELSE IF ~ as_entity(g.nodes[n].sym)
         THEN [res |-> Failed(PlanError("BadEntity", p.bench)), bench |-> 0, natural_top |-> 0]
         ELSE IF ~ is_testbench(g.nodes[n].sym)
         THEN [res |-> Failed(PlanError("BadTestbench", p.bench)), bench |-> 0, natural_top |-> 0]
         ELSE [res |-> Running, bench |-> n, natural_top |-> 0]
    ELSE IF p.top = NoIden
    THEN LET r == find_root(g) IN
         IF r.ok
         THEN IF as_entity(g.nodes[r.node].sym)
              THEN IF is_testbench(g.nodes[r.node].sym)
                   THEN [res |-> Running, bench |-> r.node, natural_top |-> 0]
                   ELSE [res |-> Running, bench |-> 0, natural_top |-> r.node]
              ELSE [res |-> Running, bench |-> 0, natural_top |-> 0]
         ELSE IF Len(r.list) = 0
              THEN [res |-> Running, bench |-> 0, natural_top |-> 0]
              ELSE [res |-> Failed(Ambiguous(g, r.list)), bench |-> 0, natural_top |-> 0]
    ELSE [res |-> Running, bench |-> 0, natural_top |-> 0]

\* a faulty detect_top that takes the first predecessor, entity or not
detect_top_first_predecessor(g, b) ==
    IF b # 0 /\ predecessors(g, b) # <<>>
    THEN [res |-> Running, top |-> predecessors(g, b)[1]]
    ELSE [res |-> Panicked, top |-> 0]

\* Plan::detect_top (lines 546-562): the single entity among the bench's
\* predecessors; anything else panics
detect_top(g, b) ==
    IF b # 0
    THEN LET entities == SelectSeq(predecessors(g, b), LAMBDA f : as_entity(g.nodes[f].sym)) IN
         IF Len(entities) = 1
         THEN [res |-> Running, top |-> entities[1]]
         ELSE [res |-> Panicked, top |-> 0]
    ELSE [res |-> Panicked, top |-> 0]

\* lines 394-396: the testbenches among the successors of the top; as_entity is
\* unwrapped on every successor
BenchCandidates(g, n) ==
    SelectSeq(successors(g, n), LAMBDA f : is_testbench(g.nodes[f].sym))

SuccessorsAreEntities(g, n) ==
    \A f \in Range(successors(g, n)) : as_entity(g.nodes[f].sym)

\* lines 379-413: the top named by --top (and the bench among its successors
\* when none is set yet), or the natural top, or the top detected from the bench
SelectTop(g, p, b, nt) ==
    IF p.top # NoIden
    THEN LET n == get_node_by_key(g, p.top) IN
         IF n = 0
         THEN [res |-> Failed(PlanError("UnknownEntity", p.top)), top |-> 0, bench |-> b]
         ELSE IF ~ as_entity(g.nodes[n].sym)
         THEN [res |-> Failed(PlanError("BadEntity", p.top)), top |-> 0, bench |-> b]
         ELSE IF is_testbench(g.nodes[n].sym)
         THEN [res |-> Failed(PlanError("BadTop", p.top)), top |-> 0, bench |-> b]
         ELSE IF b # 0
         THEN [res |-> Running, top |-> n, bench |-> b]
         ELSE IF ~ SuccessorsAreEntities(g, n)
         THEN [res |-> Panicked, top |-> 0, bench |-> b]
         ELSE LET benches == BenchCandidates(g, n) IN
              IF Len(benches) = 0 THEN [res |-> Running, top |-> n, bench |-> 0]
              ELSE IF Len(benches) = 1 THEN [res |-> Running, top |-> n, bench |-> benches[1]]
              ELSE [res |-> Failed(Ambiguous(g, benches)), top |-> 0, bench |-> b]
    ELSE IF nt # 0
    THEN [res |-> Running, top |-> nt, bench |-> b]
    ELSE LET d == detect_top(g, b) IN [res |-> d.res, top |-> d.top, bench |-> b]

\* a faulty highest point that ignores the bench
highest_point_top(b, t) == t

\* lines 425-428: the highest point is the bench if there is one, else the top
highest_point(b, t) == IF b # 0 THEN b ELSE t

-----------------------------------------------------------------------------
(* Graph::minimal_topological_sort and the blueprint rows (lines 443-511) *)

\* the nodes from which `to` is reachable, `to` included
RECURSIVE AncestorsFrom(_, _)
AncestorsFrom(g, seen) ==
    LET more == {m \in NodeIds(g) : \E n \in seen : <<m, n>> \in g.edges} \ seen
    IN IF more = {} THEN seen ELSE AncestorsFrom(g, seen \cup more)

Ancestors(g, to) == AncestorsFrom(g, {to})

\* a topological order of the nodes in `left`: repeatedly the first-inserted
\* node all of whose predecessors are already placed
RECURSIVE TopologicalOrder(_, _, _)
TopologicalOrder(g, left, placed) ==
    LET ready == {n \in left : \A m \in left : <<m, n>> \notin g.edges}
    IN IF ready = {} THEN placed
       ELSE LET n == CHOOSE x \in ready : \A y \in ready : x <= y
            IN TopologicalOrder(g, left \ {n}, Append(placed, n))

\* Graph::minimal_topological_sort: the topological order of the ancestors of
\* `target` (inclusive), ties broken by insertion order
minimal_topological_sort(g, target_node) ==
    TopologicalOrder(g, Ancestors(g, target_node), <<>>)

\* lines 448-454: the files of every node of the order, in order
FileOrder(g, order) ==
    FoldLeft(LAMBDA acc, i : acc \o g.nodes[i].files, <<>>, order)

AllPaths == <<"a.vhd", "b_tb.vhd", "c.vhd", "d.vhd">>

\* fileset::is_rtl: a file is simulation-only when its name follows the
\* testbench convention
is_rtl(path) == path \notin {"b_tb.vhd"}

\* lines 499-511: one row per entry of the file order; every file of the model
\* belongs to the current IP, whose library is work
BlueprintRows(file_order) ==
    [i \in DOMAIN file_order |->
        [fileset |-> IF is_rtl(file_order[i]) THEN "VHDL-RTL" ELSE "VHDL-SIM",
         lib |-> "work",
         file |-> file_order[i]]]

-----------------------------------------------------------------------------
(* The inputs: the source files of an IP and the command-line options *)

UseSets == {u \in SUBSET IdenSet : Cardinality(u) <= MaxUses}

SeqOfIdens(u) == SelectSeq(Idens, LAMBDA x : x \in u)

RefsTo(u) == LET q == SeqOfIdens(u) IN [i \in DOMAIN q |-> ResReference("work", q[i])]

FileIds == 1..MaxFiles

NoUnit == [kind |-> "none", ports |-> FALSE, uses |-> {}, pfile |-> 1, sfile |-> 1]

\* what a design declares under one name: nothing; an entity (with or without
\* ports) and its architecture, which instantiates `uses`; a package and its
\* body, which references `uses`; a context, which references `uses`
UnitDecls(fileIds, packageUses, contextUses) ==
    {NoUnit}
    \cup [kind : {"entity"}, ports : BOOLEAN, uses : UseSets, pfile : fileIds, sfile : fileIds]
    \cup [kind : {"package"}, ports : {FALSE}, uses : packageUses, pfile : fileIds, sfile : {1}]
    \cup [kind : {"context"}, ports : {FALSE}, uses : contextUses, pfile : {1}, sfile : {1}]

SingleUses == {u \in UseSets : Cardinality(u) <= 1}

PrimarySymbol(n, d) ==
    IF d.kind = "entity"
    THEN Sym("entity", n, NoIden, IF d.ports THEN <<"p">> ELSE <<>>, <<>>, <<>>)
    ELSE IF d.kind = "package"
    THEN Sym("package", n, NoIden, <<>>, <<>>, <<>>)
    ELSE Sym("context", n, NoIden, <<>>, <<>>, RefsTo(d.uses))

SecondarySymbol(n, d) ==
    IF d.kind = "entity"
    THEN Sym("architecture", "rtl", n, <<>>, SeqOfIdens(d.uses), <<>>)
    ELSE Sym("package_body", NoIden, n, <<>>, <<>>, RefsTo(d.uses))

\* the symbols of file k: the primary units declared in it, in name order, then
\* the secondary units kept in it
FileSymbols(decl, k) ==
    LET prim == SelectSeq(Idens, LAMBDA n : decl[n].kind # "none" /\ decl[n].pfile = k)
        sec  == SelectSeq(Idens, LAMBDA n : decl[n].kind \in {"entity", "package"} /\ decl[n].sfile = k)
    IN [i \in DOMAIN prim |-> PrimarySymbol(prim[i], decl[prim[i]])]
       \o [i \in DOMAIN sec |-> SecondarySymbol(sec[i], decl[sec[i]])]

SourceFiles(decl) ==
    [k \in FileIds |-> [path |-> AllPaths[k], symbols |-> FileSymbols(decl, k)]]

CliIdens == IdenSet \cup {NoIden}

-----------------------------------------------------------------------------
(* Versions and the catalog: core/version, core/catalog.rs *)

\* AnyVersion::Latest, AnyVersion::Specific(partial version)
Latest == [kind |-> "Latest", v |-> <<>>]
Specific(pv) == [kind |-> "Specific", v |-> pv]

\* version::is_compatible: a partial version M matches M.*.*, M.m matches
\* M.m.*, M.m.p matches exactly
is_compatible(pv, v) == \A i \in DOMAIN pv : pv[i] = v[i]

\* Version's ordering: major, then minor, then patch
VersionGreater(x, y) ==
    \/ x[1] > y[1]
    \/ x[1] = y[1] /\ x[2] > y[2]
    \/ x[1] = y[1] /\ x[2] = y[2] /\ x[3] > y[3]

NoIp == [name |-> NoIden, version |-> <<0, 0, 0>>, deps |-> {}]

\* IpLevel::get_target_version (lines 148-173): among the IPs of `space` that
\* fit `version`, keep one that is strictly greater than the one kept so far
get_target_version(version, space) ==
    LET fits == SelectSeq(space, LAMBDA ip :
                    IF version.kind = "Specific" THEN is_compatible(version.v, ip.version) ELSE TRUE)
    IN FoldLeft(LAMBDA latest_version, ip :
                    IF latest_version = NoIp \/ VersionGreater(ip.version, latest_version.version)
                    THEN ip ELSE latest_version,
                NoIp, fits)

\* IpLevel::get_install, IpLevel::get_download
get_install(lvl, version) == get_target_version(version, lvl.installs)
get_download(lvl, version) == get_target_version(version, lvl.downloads)

\* a faulty lookup that takes the best fit of installations and downloads together
get_any_level(lvl, check_downloads, version) ==
    get_target_version(version, lvl.installs \o (IF check_downloads THEN lvl.downloads ELSE <<>>))

\* IpLevel::get (lines 120-128): installations first, downloads only if asked
get(lvl, check_downloads, version) ==
    LET ip == get_install(lvl, version) IN
    IF ip # NoIp THEN ip
    ELSE IF check_downloads THEN get_download(lvl, version) ELSE NoIp

-----------------------------------------------------------------------------
(* Plan::construct_rough_build_list (lines 189-215) *)

\* a faulty visit that leaves the loop after the first dependency
VisitFirstDependency(cat, stack, deps) ==
    IF deps = <<>> THEN [res |-> Running, stack |-> stack]
    ELSE IF Head(deps).name \notin DOMAIN cat
    THEN [res |-> Failed(PlanError("UnknownIp", Head(deps).name)), stack |-> stack]
    ELSE IF get(cat[Head(deps).name], TRUE, Head(deps).version) = NoIp
    THEN [res |-> Panicked, stack |-> stack]
    ELSE [res |-> Running, stack |-> Append(stack, get(cat[Head(deps).name], TRUE, Head(deps).version))]

\* lines 196-212 for one popped IP, its dependencies visited in the order
\* `deps`: an unknown name returns the error, a known name without a fitting
\* version panics, anything else is pushed on the work stack
VisitDependencies(cat, stack, deps) ==
    FoldLeft(LAMBDA acc, d :
                IF acc.res.status # "running" THEN acc
                ELSE IF d.name \notin DOMAIN cat
                THEN [acc EXCEPT !.res = Failed(PlanError("UnknownIp", d.name))]
                ELSE LET dep == get(cat[d.name], TRUE, d.version) IN
                     IF dep = NoIp THEN [acc EXCEPT !.res = Panicked]
                     ELSE [acc EXCEPT !.stack = Append(@, dep)],
             [res |-> Running, stack |-> stack], deps)

\* the orders in which a dependency map may be iterated
RECURSIVE Orderings(_)
Orderings(S) ==
    IF S = {} THEN {<<>>}
    ELSE UNION {{<<x>> \o q : q \in Orderings(S \ {x})} : x \in S}

-----------------------------------------------------------------------------
(* The inputs: the target IP and the catalog *)

IpNames == <<"gates", "mux">>
IpNameSet == Range(IpNames)
Versions == <<<<1, 0, 0>>, <<1, 2, 3>>, <<2, 0, 0>>>>

Dependency(name, version) == [name |-> name, version |-> version]

Ip(name, version, deps) == [name |-> name, version |-> version, deps |-> deps]

IpLevel(installs, downloads) == [installs |-> installs, downloads |-> downloads]

\* what the cache holds of one name at one version: nothing, or an IP that
\* requires nothing or major version 1 of one name
SlotOptions == {"absent", "leaf"} \cup IpNameSet

SlotIp(n, v, opt) ==
    Ip(n, v, IF opt = "leaf" THEN {} ELSE {Dependency(opt, Specific(<<1>>))})

\* Catalog::detect (lines 242-268): the names with at least one IP get a
\* level, which lists the IPs in the order they are found
CatalogOf(slots) ==
    LET present(n) == SelectSeq([i \in DOMAIN Versions |-> i], LAMBDA i : slots[n][i] # "absent")
        known == {n \in IpNameSet : present(n) # <<>>}
    IN [n \in known |->
            IpLevel([k \in DOMAIN present(n) |->
                        SlotIp(n, Versions[present(n)[k]], slots[n][present(n)[k]])],
                    <<>>)]

\* Statement::new (symbol.rs lines 565-567): no tokens, no references; `rest`
\* is what the token stream still holds
Statement_new == [tokens |-> <<>>, refs |-> <<>>, rest |-> <<>>]

\* the parser of a run that is handed symbols instead of text
IdleParser == [tokens |-> <<>>, statement |-> Statement_new, items |-> <<>>, step |-> "idle"]

\* no version is being sought
IdleLookup ==
    [level |-> IpLevel(<<>>, <<>>), check_downloads |-> FALSE, version |-> Latest,
     found |-> NoIp, step |-> "idle"]

\* CacheSlot::try_from_str's None, and the slot of a run that builds no slot
NoSlot == [name |-> <<>>, version |-> <<>>, rem |-> <<>>]
IdleSlot == [input |-> NoSlot, text |-> <<>>, parsed |-> NoSlot, step |-> "idle"]

\* a cache directory that holds nothing
EmptyCache == [n \in IpNameSet |-> [i \in DOMAIN Versions |-> "absent"]]

Requirements == {Specific(<<1>>), Specific(<<2>>), Specific(<<1, 2>>), Latest}

\* a manifest's dependency table: at most one requirement per name
DependencyTables ==
    {{Dependency(n, req[n]) : n \in names} : names \in SUBSET IpNameSet, req \in [IpNameSet -> Requirements]}

TargetIp(deps) == Ip("proj", <<0, 1, 0>>, deps)

-----------------------------------------------------------------------------
(* The files on disk *)

NoFile == [exists |-> FALSE, content |-> <<>>]
File(content) == [exists |-> TRUE, content |-> content]

\* IpManifest::write_lock: one entry per resolved IP, sorted by name
LockEntries(build_list) ==
    LET entries == {[name |-> build_list[i].name, version |-> build_list[i].version] : i \in DOMAIN build_list}
        names == <<"proj">> \o IpNames
    IN FoldLeft(LAMBDA acc, n :
                    FoldLeft(LAMBDA a, v :
                                IF [name |-> n, version |-> v] \in entries
                                THEN Append(a, [name |-> n, version |-> v]) ELSE a,
                             acc, <<<<0, 1, 0>>>> \o Versions),
                <<>>, names)

\* lines 525-534: ORBIT_TOP and ORBIT_BENCH (empty without a bench)
Environment(top_name, bench_name) == [ORBIT_TOP |-> top_name, ORBIT_BENCH |-> bench_name]

-----------------------------------------------------------------------------
(* Plan::run as a state machine *)

InitRun ==
    /\ pc = "clean"
    /\ graph_map = EmptyGraph
    /\ natural_top = 0
    /\ bench = 0
    /\ top = 0
    /\ outcome = Running
    /\ min_order = <<>>
    /\ blueprint = <<>>
    /\ processing = <<>>
    /\ result = <<>>

FreshDisk ==
    /\ lockfile = NoFile
    /\ build_dir = FALSE
    /\ blueprint_file = NoFile
    /\ env_file = NoFile

\* projects kept in one file, planned with any --top and --bench
InitSelection ==
    /\ \E decl \in [IdenSet -> UnitDecls({1}, SingleUses, {{}})] : files = SourceFiles(decl)
    /\ plan \in [top : CliIdens, bench : CliIdens, clean : {FALSE}, force : {FALSE}]
    /\ target = TargetIp({})
    /\ cache = EmptyCache
    /\ catalog = CatalogOf(cache)
    /\ slot = IdleSlot
    /\ parser = IdleParser
    /\ lookup = IdleLookup
    /\ FreshDisk
    /\ InitRun

\* projects spread over several files, planned without options
InitLayout ==
    /\ \E decl \in [IdenSet -> UnitDecls(FileIds, {{}}, {})] : files = SourceFiles(decl)
    /\ plan = [top |-> NoIden, bench |-> NoIden, clean |-> FALSE, force |-> FALSE]
    /\ target = TargetIp({})
    /\ cache = EmptyCache
    /\ catalog = CatalogOf(cache)
    /\ slot = IdleSlot
    /\ parser = IdleParser
    /\ lookup = IdleLookup
    /\ FreshDisk
    /\ InitRun

Init == InitSelection

\* one entity with ports in one file
SingleEntity ==
    SourceFiles([n \in IdenSet |->
        IF n = "a" THEN [kind |-> "entity", ports |-> TRUE, uses |-> {}, pfile |-> 1, sfile |-> 1]
        ELSE NoUnit])

\* a single-entity project with any dependency table over any cache
InitResolve ==
    /\ files = SingleEntity
    /\ plan = [top |-> NoIden, bench |-> NoIden, clean |-> FALSE, force |-> FALSE]
    /\ \E deps \in DependencyTables : target = TargetIp(deps)
    /\ cache \in [IpNameSet -> [DOMAIN Versions -> SlotOptions]]
    /\ catalog = CatalogOf(cache)
    /\ slot = IdleSlot
    /\ parser = IdleParser
    /\ lookup = IdleLookup
    /\ FreshDisk
    /\ InitRun

Finish(res) ==
    /\ pc' = "done"
    /\ outcome' = res

\* lines 321-324: --clean removes the build directory and what it holds
Clean ==
    /\ pc = "clean"
    /\ pc' = "graph"
    /\ IF plan.clean /\ build_dir
       THEN build_dir' = FALSE /\ blueprint_file' = NoFile /\ env_file' = NoFile
       ELSE UNCHANGED <<build_dir, blueprint_file, env_file>>
    /\ UNCHANGED <<inputVars, graph_map, selectVars, outcome, min_order, blueprint,
                   resolveVars, lockfile>>

\* line 332: build the unit graph of the current IP's files
BuildGraph ==
    /\ pc = "graph"
    /\ graph_map' = build_full_graph(files)
    /\ IF graph_map'.panicked
       THEN Finish(Panicked)
       ELSE pc' = "bench" /\ UNCHANGED outcome
    /\ UNCHANGED <<inputVars, selectVars, min_order, blueprint, resolveVars, diskVars>>

\* lines 334-376
ChooseBench ==
    /\ pc = "bench"
    /\ LET r == SelectBench(graph_map, plan) IN
        /\ bench' = r.bench
        /\ natural_top' = r.natural_top
        /\ IF r.res.status = "running"
           THEN pc' = "top" /\ UNCHANGED outcome
           ELSE Finish(r.res)
    /\ UNCHANGED <<inputVars, graph_map, top, min_order, blueprint, resolveVars, diskVars>>

\* lines 378-413
ChooseTop ==
    /\ pc = "top"
    /\ LET r == SelectTop(graph_map, plan, bench, natural_top) IN
        /\ top' = r.top
        /\ bench' = r.bench
        /\ IF r.res.status = "running"
           THEN pc' = "resolve" /\ UNCHANGED outcome
           ELSE Finish(r.res)
    /\ UNCHANGED <<inputVars, graph_map, natural_top, min_order, blueprint, resolveVars, diskVars>>

\* lines 190-191: the result is empty and the work stack holds the target
ResolveBegin ==
    /\ pc = "resolve"
    /\ pc' = "pop"
    /\ processing' = <<target>>
    /\ result' = <<>>
    /\ UNCHANGED <<inputVars, graph_map, selectVars, outcome, min_order, blueprint, diskVars>>

\* lines 193-213: one round of the loop: pop an IP, append it to the result and
\* visit its dependencies; line 214 once the stack is empty
ResolvePop ==
    /\ pc = "pop"
    /\ processing = <<>> \/ Len(result) < MaxBuild
    /\ IF processing = <<>>
       THEN /\ pc' = "lock"
            /\ UNCHANGED <<processing, result, outcome>>
       ELSE LET ip == processing[Len(processing)] IN
            /\ result' = Append(result, ip)
            /\ \E deps \in Orderings(ip.deps) :
                LET r == VisitDependencies(catalog, SubSeq(processing, 1, Len(processing) - 1), deps) IN
                /\ processing' = r.stack
                /\ IF r.res.status = "running"
                   THEN pc' = "pop" /\ UNCHANGED outcome
                   ELSE Finish(r.res)
    /\ UNCHANGED <<inputVars, graph_map, selectVars, min_order, blueprint, diskVars>>

\* line 436: write the lock file
WriteLock ==
    /\ pc = "lock"
    /\ pc' = "sort"
    /\ lockfile' = File(LockEntries(result))
    /\ UNCHANGED <<inputVars, graph_map, selectVars, outcome, min_order, blueprint,
                   resolveVars, build_dir, blueprint_file, env_file>>

\* lines 438-511: rebuild the graph over the files of the resolved IPs, sort from
\* the highest point and compose the HDL rows
EmitBlueprint ==
    /\ pc = "sort"
    /\ pc' = "mkdir"
    /\ LET highest_iden == graph_map.keys[highest_point(bench, top)]
           g == build_full_graph(files)
           order == minimal_topological_sort(g, get_node_by_key(g, highest_iden))
       IN /\ min_order' = order
          /\ blueprint' = BlueprintRows(FileOrder(g, order))
    /\ UNCHANGED <<inputVars, graph_map, selectVars, outcome, resolveVars, diskVars>>

\* lines 513-516: create the build directory if it does not exist
CreateBuildDir ==
    /\ pc = "mkdir"
    /\ pc' = "create"
    /\ build_dir' = TRUE
    /\ UNCHANGED <<inputVars, graph_map, selectVars, outcome, min_order, blueprint,
                   resolveVars, lockfile, blueprint_file, env_file>>

\* line 520: File::create truncates the blueprint file in place
CreateBlueprint ==
    /\ pc = "create"
    /\ pc' = "write"
    /\ blueprint_file' = File(<<>>)
    /\ UNCHANGED <<inputVars, graph_map, selectVars, outcome, min_order, blueprint,
                   resolveVars, lockfile, build_dir, env_file>>

\* line 522: write the rows
WriteBlueprint ==
    /\ pc = "write"
    /\ pc' = "env"
    /\ blueprint_file' = File(blueprint)
    /\ UNCHANGED <<inputVars, graph_map, selectVars, outcome, min_order, blueprint,
                   resolveVars, lockfile, build_dir, env_file>>

\* lines 417-422 and 524-538: save ORBIT_TOP and ORBIT_BENCH
SaveEnvironment ==
    /\ pc = "env"
    /\ LET top_name == as_iden(graph_map.nodes[top].sym)
           bench_name == IF bench # 0 THEN graph_map.keys[bench] ELSE ""
       IN env_file' = File(<<Environment(top_name, bench_name)>>)
    /\ Finish(Success)
    /\ UNCHANGED <<inputVars, graph_map, selectVars, min_order, blueprint,
                   resolveVars, lockfile, build_dir, blueprint_file>>

Next ==
    \/ Clean
    \/ BuildGraph
    \/ ChooseBench
    \/ ChooseTop
    \/ ResolveBegin
    \/ ResolvePop
    \/ WriteLock
    \/ EmitBlueprint
    \/ CreateBuildDir
    \/ CreateBlueprint
    \/ WriteBlueprint
    \/ SaveEnvironment

Spec == Init /\ [][Next]_vars

SpecLayout == InitLayout /\ [][Next]_vars

SpecResolve == InitResolve /\ [][Next]_vars

\* a single-entity project with any dependency table over a cache that holds
\* at most version 1.0.0 of each name, which requires nothing, itself or the
\* other name
InitCycle ==
    /\ files = SingleEntity
    /\ plan = [top |-> NoIden, bench |-> NoIden, clean |-> FALSE, force |-> FALSE]
    /\ \E deps \in DependencyTables : target = TargetIp(deps)
    /\ \E opt \in [IpNameSet -> SlotOptions] :
            cache = [n \in IpNameSet |-> [i \in DOMAIN Versions |->
                        IF i = 1 THEN opt[n] ELSE "absent"]]
    /\ catalog = CatalogOf(cache)
    /\ slot = IdleSlot
    /\ parser = IdleParser
    /\ lookup = IdleLookup
    /\ FreshDisk
    /\ InitRun

\* the loop of lines 193-213 is sequential code: while it has a next round it
\* takes it
SpecResolveFair == InitCycle /\ [][Next]_vars /\ WF_vars(ResolvePop)

-----------------------------------------------------------------------------
(* Plan::exec (lines 46-104): the catalog is gathered, and filled in from the
   lock file, before Plan::run *)

\* what the cache directory may hold of one name at one version when the
\* catalog is gathered: nothing, an installation, a dynamic installation
CacheOptions == {"absent", "leaf", "dynamic"}

\* Ip::detect_all: the IPs that have a manifest under the cache directory
detect_all(slots) ==
    FoldLeft(LAMBDA acc, n :
                FoldLeft(LAMBDA a, i :
                            IF slots[n][i] = "absent" THEN a
                            ELSE Append(a, [ip |-> SlotIp(n, Versions[i],
                                                          IF slots[n][i] = "dynamic" THEN "leaf" ELSE slots[n][i]),
                                            dynamic |-> slots[n][i] = "dynamic"]),
                         acc, [i \in DOMAIN Versions |-> i]),
             <<>>, IpNames)

\* IpLevel::add_install (lines 60-65): pushed unless it is dynamic
add_install(lvl, m) ==
    IF ~ m.dynamic THEN [lvl EXCEPT !.installs = Append(@, m.ip)] ELSE lvl

\* Catalog::installations (lines 196-199) through Catalog::detect (lines
\* 242-268): every IP found is added to the level of its name, which is
\* created when the name is new
installations(cat, slots) ==
    FoldLeft(LAMBDA c, m :
                IF m.ip.name \in DOMAIN c
                THEN [c EXCEPT ![m.ip.name] = add_install(@, m)]
                ELSE c @@ (m.ip.name :> add_install(IpLevel(<<>>, <<>>), m)),
             cat, detect_all(slots))

\* plan.rs lines 70-84: the lock entries, other than the target's, for which
\* the catalog has no IP of exactly that version
MissingEntries(cat, entries, pkgid) ==
    {e \in Range(entries) :
        /\ e.name # pkgid
        /\ \/ e.name \notin DOMAIN cat
           \/ get(cat[e.name], TRUE, Specific(e.version)) = NoIp}

\* Plan::install_from_lock_entry (lines 176-184): the entry's version is
\* installed into the cache directory
install_from_lock_entries(slots, missing) ==
    [n \in IpNameSet |-> [i \in DOMAIN Versions |->
        IF [name |-> n, version |-> Versions[i]] \in missing THEN "leaf" ELSE slots[n][i]]]

\* a lock file that names, next to the target, at most one version per name
LockedList(pick) ==
    <<TargetIp({})>> \o
        FoldLeft(LAMBDA a, n : IF pick[n] = 0 THEN a ELSE Append(a, Ip(n, Versions[pick[n]], {})),
                 <<>>, IpNames)

\* the lock file of an earlier version of the target: the target's entry no
\* longer names the manifest's version
StaleEntries(build_list) ==
    <<[name |-> TargetIp({}).name, version |-> <<0, 0, 9>>]>> \o Tail(LockEntries(build_list))

\* a lockfile of any content is taken for usable
can_use_any_lock(man, lock) == lock.exists

\* IpManifest::can_use_lock: there is a lock file and its entry of the target
\* matches the manifest
can_use_lock(man, lock) ==
    /\ lock.exists
    /\ \E i \in DOMAIN lock.content :
            lock.content[i] = [name |-> man.name, version |-> man.version]

\* a one-entity project planned, with or without --force, against any cache
\* directory, with no lock file, with a lock file that matches the manifest
\* or with one that does not
InitCatalog ==
    /\ files = SingleEntity
    /\ plan \in [top : {NoIden}, bench : {NoIden}, clean : {FALSE}, force : BOOLEAN]
    /\ target = TargetIp({})
    /\ cache \in [IpNameSet -> [DOMAIN Versions -> CacheOptions]]
    /\ catalog = << >>
    /\ slot = IdleSlot
    /\ parser = IdleParser
    /\ lookup = IdleLookup
    /\ \/ lockfile = NoFile
       \/ \E pick \in [IpNameSet -> {0} \cup DOMAIN Versions] :
              \/ lockfile = File(LockEntries(LockedList(pick)))
              \/ lockfile = File(StaleEntries(LockedList(pick)))
    /\ build_dir = FALSE
    /\ blueprint_file = NoFile
    /\ env_file = NoFile
    /\ pc = "catalog"
    /\ graph_map = EmptyGraph
    /\ natural_top = 0
    /\ bench = 0
    /\ top = 0
    /\ outcome = Running
    /\ min_order = <<>>
    /\ blueprint = <<>>
    /\ processing = <<>>
    /\ result = <<>>

\* lines 60-64: Catalog::new() and the installations of the cache directory
GatherCatalog ==
    /\ pc = "catalog"
    /\ pc' = "lockpath"
    /\ catalog' = installations(<< >>, cache)
    /\ UNCHANGED <<plan, files, target, cache, slot, parser, lookup, graph_map, selectVars, outcome,
                   min_order, blueprint, resolveVars, diskVars>>

\* lines 67-89: the lock file can be used; what it names and the catalog lacks
\* is installed, then the installations are collected again on the same catalog
UseLock ==
    /\ pc = "lockpath"
    /\ can_use_lock(target, lockfile) /\ ~ plan.force
    /\ pc' = "clean"
    /\ cache' = install_from_lock_entries(cache,
                    MissingEntries(catalog, lockfile.content, target.name))
    /\ catalog' = installations(catalog, cache')
    /\ UNCHANGED <<plan, files, target, slot, parser, lookup, graph_map, selectVars, outcome,
                   min_order, blueprint, resolveVars, diskVars>>

\* lines 79 and 83: fetching or installing a missing entry fails
LockFetchFails ==
    /\ pc = "lockpath"
    /\ can_use_lock(target, lockfile) /\ ~ plan.force
    /\ \E e \in MissingEntries(catalog, lockfile.content, target.name) :
            Finish(Failed(PlanError("InstallFailed", e.name)))
    /\ UNCHANGED <<inputVars, graph_map, selectVars, min_order, blueprint,
                   resolveVars, diskVars>>

\* line 67: no usable lock file, or --force
SkipLock ==
    /\ pc = "lockpath"
    /\ ~ (can_use_lock(target, lockfile) /\ ~ plan.force)
    /\ pc' = "clean"
    /\ UNCHANGED <<inputVars, graph_map, selectVars, outcome, min_order,
                   blueprint, resolveVars, diskVars>>

SpecCatalog ==
    InitCatalog /\ [][GatherCatalog \/ UseLock \/ LockFetchFails \/ SkipLock \/ Next]_vars

-----------------------------------------------------------------------------
(* CacheSlot (catalog.rs lines 347-393): the name of an installation's
   directory in the cache. Strings are sequences of characters. *)

\* length of the name of a package in the model
MaxNameLen == 3
\* number of characters of the checksum kept in the slot (line 354)
SlotChecksumLen == 10
\* number of hexadecimal characters of a Sha256Hash's text
HashLen == 64

DecDigits == <<"0", "1", "2", "3", "4", "5", "6", "7", "8", "9">>
HexDigits == DecDigits \o <<"a", "b", "c", "d", "e", "f">>
NameLetters == {"a", "b"}
NameChars == NameLetters \cup {"-", "_"}

\* the names PkgPart::from_str accepts: a letter, then letters, '-' and '_'
PkgParts ==
    {n \in UNION {[1..k -> NameChars] : k \in 1..MaxNameLen} : n[1] \in NameLetters}

\* the components of the versions: one and two decimal digits
VersionParts == {0, 1, 10, 12}

\* Sha256Hash's text: HashLen lowercase hexadecimal characters
Checksums == {[i \in 1..HashLen |-> HexDigits[((i * k) % 16) + 1]] : k \in {1, 3, 7}}

\* Display of an unsigned integer
RECURSIVE NatToString(_)
NatToString(n) ==
    IF n < 10 THEN <<DecDigits[n + 1]>>
    ELSE NatToString(n \div 10) \o <<DecDigits[(n % 10) + 1]>>

\* str::parse of an unsigned integer; -1 stands for the error
StringToNat(chars) ==
    IF chars = <<>> \/ \E i \in DOMAIN chars : chars[i] \notin Range(DecDigits) THEN -1
    ELSE FoldLeft(LAMBDA acc, c : acc * 10 + (IndexOf(DecDigits, c) - 1), 0, chars)

\* Display of Version: major.minor.patch
VersionToString(v) ==
    NatToString(v[1]) \o <<".">> \o NatToString(v[2]) \o <<".">> \o NatToString(v[3])

\* str::split: the pieces between the separators, left to right
RECURSIVE split(_, _)
split(s, sep) ==
    IF \A i \in DOMAIN s : s[i] # sep THEN <<s>>
    ELSE LET k == CHOOSE i \in DOMAIN s : s[i] = sep /\ \A j \in 1..(i - 1) : s[j] # sep
         IN <<SubSeq(s, 1, k - 1)>> \o split(SubSeq(s, k + 1, Len(s)), sep)

\* Version::from_str: three numbers separated by '.'; <<>> stands for the error
VersionFromStr(chars) ==
    LET parts == split(chars, ".") IN
    IF Len(parts) # 3 \/ \E i \in DOMAIN parts : StringToNat(parts[i]) = -1 THEN <<>>
    ELSE [i \in 1..3 |-> StringToNat(parts[i])]

\* PkgPart::from_str: the characters are kept; <<>> stands for the error
PkgPartFromStr(chars) ==
    IF chars # <<>> /\ chars[1] \in NameLetters /\ Range(chars) \subseteq NameChars
    THEN chars ELSE <<>>

\* a faulty split that cuts at the leftmost separators; the pieces are
\* returned last piece first
RECURSIVE splitn_reversed(_, _, _)
splitn_reversed(s, n, sep) ==
    IF n = 1 \/ \A i \in DOMAIN s : s[i] # sep THEN <<s>>
    ELSE LET k == CHOOSE i \in DOMAIN s : s[i] = sep /\ \A j \in 1..(i - 1) : s[j] # sep
         IN splitn_reversed(SubSeq(s, k + 1, Len(s)), n - 1, sep) \o <<SubSeq(s, 1, k - 1)>>

\* str::rsplitn (line 361): at most n pieces, cut at the rightmost separators
\* and returned right to left; the last piece is what is left of the string
RECURSIVE rsplitn(_, _, _)
rsplitn(s, n, sep) ==
    IF n = 1 \/ \A i \in DOMAIN s : s[i] # sep THEN <<s>>
    ELSE LET k == CHOOSE i \in DOMAIN s : s[i] = sep /\ \A j \in (i + 1)..Len(s) : s[j] # sep
         IN <<SubSeq(s, k + 1, Len(s))>> \o rsplitn(SubSeq(s, 1, k - 1), n - 1, sep)

\* CacheSlot::new (lines 352-355)
CacheSlot_new(name, version, checksum) ==
    [name |-> name, version |-> version, rem |-> SubSeq(checksum, 1, SlotChecksumLen)]

\* Display for CacheSlot (lines 389-393)
CacheSlot_to_string(s) ==
    s.name \o <<"-">> \o VersionToString(s.version) \o <<"-">> \o s.rem

\* CacheSlot::try_from_str (lines 359-376)
try_from_str(s) ==
    LET parts == rsplitn(s, 3, "-") IN
    IF Len(parts) # 3 THEN NoSlot
    ELSE IF PkgPartFromStr(parts[3]) = <<>> THEN NoSlot
    ELSE IF VersionFromStr(parts[2]) = <<>> THEN NoSlot
    ELSE [name |-> PkgPartFromStr(parts[3]), version |-> VersionFromStr(parts[2]), rem |-> parts[1]]

\* a slot is built from any name, version and checksum
InitSlot ==
    /\ \E n \in PkgParts, v \in [1..3 -> VersionParts], h \in Checksums :
            slot = [input |-> [name |-> n, version |-> v, rem |-> h],
                    text |-> <<>>, parsed |-> NoSlot, step |-> "new"]
    /\ parser = IdleParser
    /\ lookup = IdleLookup
    /\ files = SingleEntity
    /\ plan = [top |-> NoIden, bench |-> NoIden, clean |-> FALSE, force |-> FALSE]
    /\ target = TargetIp({})
    /\ cache = EmptyCache
    /\ catalog = CatalogOf(cache)
    /\ FreshDisk
    /\ InitRun

otherVars == <<pc, plan, files, graph_map, natural_top, bench, top, outcome,
               min_order, blueprint, target, catalog, processing, result,
               lockfile, build_dir, blueprint_file, env_file, cache, parser, lookup>>

\* CacheSlot::new(..).to_string()
SlotToString ==
    /\ slot.step = "new"
    /\ slot' = [slot EXCEPT
                    !.text = CacheSlot_to_string(CacheSlot_new(slot.input.name, slot.input.version, slot.input.rem)),
                    !.step = "named"]
    /\ UNCHANGED otherVars

\* CacheSlot::try_from_str of the directory's name
SlotTryFromStr ==
    /\ slot.step = "named"
    /\ slot' = [slot EXCEPT !.parsed = try_from_str(slot.text), !.step = "parsed"]
    /\ UNCHANGED otherVars

SpecSlot == InitSlot /\ [][SlotToString \/ SlotTryFromStr]_vars

-----------------------------------------------------------------------------
(* Projects with configurations *)

NoConfigUnit == [kind |-> "none", uses |-> {}, specs |-> {}, owner |-> NoIden, pfile |-> 1]

\* what a design declares under one name: nothing; an entity with ports and
\* its architecture in the same file, which instantiates `uses` and has a
\* configuration specification that names `specs`; a configuration of `owner`
ConfigDecls ==
    {NoConfigUnit}
    \cup [kind : {"entity"}, uses : SingleUses, specs : SingleUses, owner : {NoIden}, pfile : FileIds]
    \cup [kind : {"configuration"}, uses : {{}}, specs : {{}}, owner : IdenSet, pfile : FileIds]

\* symbol.rs lines 589-647 (an entity), 817-853 (a configuration)
ConfigPrimarySymbol(n, d) ==
    IF d.kind = "entity"
    THEN Sym("entity", n, NoIden, <<"p">>, <<>>, <<>>)
    ELSE Sym("configuration", n, d.owner, <<>>, <<>>, <<>>)

\* symbol.rs lines 919-930 with parse_declaration (lines 1163-1217): the names
\* of the configuration specifications come first, then the instantiations
\* of the statement part
ConfigArchitecture(n, d) ==
    Sym("architecture", "rtl", n, <<>>, SeqOfIdens(d.specs) \o SeqOfIdens(d.uses), <<>>)

ConfigFileSymbols(decl, k) ==
    LET prim == SelectSeq(Idens, LAMBDA n : decl[n].kind # "none" /\ decl[n].pfile = k)
        sec  == SelectSeq(Idens, LAMBDA n : decl[n].kind = "entity" /\ decl[n].pfile = k)
    IN [i \in DOMAIN prim |-> ConfigPrimarySymbol(prim[i], decl[prim[i]])]
       \o [i \in DOMAIN sec |-> ConfigArchitecture(sec[i], decl[sec[i]])]

ConfigSourceFiles(decl) ==
    [k \in FileIds |-> [path |-> AllPaths[k], symbols |-> ConfigFileSymbols(decl, k)]]

\* projects with entities and configurations, planned without options
InitConfig ==
    /\ \E decl \in [IdenSet -> ConfigDecls] : files = ConfigSourceFiles(decl)
    /\ plan = [top |-> NoIden, bench |-> NoIden, clean |-> FALSE, force |-> FALSE]
    /\ target = TargetIp({})
    /\ cache = EmptyCache
    /\ catalog = CatalogOf(cache)
    /\ slot = IdleSlot
    /\ parser = IdleParser
    /\ lookup = IdleLookup
    /\ FreshDisk
    /\ InitRun

SpecConfig == InitConfig /\ [][Next]_vars

-----------------------------------------------------------------------------
(* Projects whose units carry resource references *)

\* the references of one unit: none, one, or two with the same suffix and
\* different prefixes (a library, and a name that may be a unit)
RefLists ==
    {<<>>}
    \cup {<<ResReference(p, x)>> : p \in {"work", "a"}, x \in IdenSet}
    \cup {<<ResReference("work", x), ResReference("a", x)>> : x \in IdenSet}

\* what a design declares under one name: nothing, or an entity with ports, a
\* package or a context, each with references
RefDecls == {[kind |-> "none", refs |-> <<>>]} \cup [kind : {"entity", "package", "context"}, refs : RefLists]

RefSymbol(n, d) ==
    Sym(d.kind, n, NoIden, IF d.kind = "entity" THEN <<"p">> ELSE <<>>, <<>>, d.refs)

\* all units are kept in the first file
RefSourceFiles(decl) ==
    LET prim == SelectSeq(Idens, LAMBDA n : decl[n].kind # "none") IN
    [k \in FileIds |->
        [path |-> AllPaths[k],
         symbols |-> IF k = 1 THEN [i \in DOMAIN prim |-> RefSymbol(prim[i], decl[prim[i]])]
                     ELSE <<>>]]

InitRefs ==
    /\ \E decl \in [IdenSet -> RefDecls] : files = RefSourceFiles(decl)
    /\ plan = [top |-> NoIden, bench |-> NoIden, clean |-> FALSE, force |-> FALSE]
    /\ target = TargetIp({})
    /\ cache = EmptyCache
    /\ catalog = CatalogOf(cache)
    /\ slot = IdleSlot
    /\ parser = IdleParser
    /\ lookup = IdleLookup
    /\ FreshDisk
    /\ InitRun

SpecRefs == InitRefs /\ [][Next]_vars

-----------------------------------------------------------------------------
(* VHDLSymbol::compose_statement (symbol.rs lines 964-1010). A token is a
   string: an identifier, a delimiter or a keyword. *)

\* number of tokens of a statement before its end
MaxTokens == 7

TokenIdens == {"a", "b"}

\* VHDLToken::get_identifier is Some
get_identifier(t) == t \in TokenIdens

\* lines 971-1008, from token i on, with a fault: the identifier behind the dot
\* is taken together with the dot
RECURSIVE ComposeSkipping(_, _, _)
ComposeSkipping(toks, i, st) ==
    IF i > Len(toks) THEN Statement_new
    ELSE LET t == toks[i] IN
    IF t = ";" THEN [st EXCEPT !.rest = SubSeq(toks, i + 1, Len(toks))]
    ELSE IF t \in {"generate", "begin"}
            \/ (st.tokens # <<>> /\ st.tokens[1] = "when" /\ t = "=>")
    THEN [st EXCEPT !.tokens = Append(@, t), !.rest = SubSeq(toks, i + 1, Len(toks))]
    ELSE IF get_identifier(t) /\ i + 1 <= Len(toks) /\ toks[i + 1] = "."
    THEN IF i + 2 <= Len(toks) /\ get_identifier(toks[i + 2])
         THEN ComposeSkipping(toks, i + 3,
                [st EXCEPT !.tokens = @ \o <<t, ".", toks[i + 2]>>,
                           !.refs = Append(@, ResReference(t, toks[i + 2]))])
         ELSE ComposeSkipping(toks, i + 2, [st EXCEPT !.tokens = @ \o <<t, ".">>])
    ELSE ComposeSkipping(toks, i + 1, [st EXCEPT !.tokens = Append(@, t)])

compose_statement_skipping(toks) == ComposeSkipping(toks, 1, Statement_new)

\* lines 971-1008, from token i on: the terminator ends the statement and is
\* dropped; a breaking keyword ends it and is kept; an identifier followed by
\* a dot takes the dot and, when an identifier is next, stores the reference
\* (the next identifier stays in the stream); line 1009: at the end of the
\* stream a blank statement is returned
RECURSIVE ComposeFrom(_, _, _)
ComposeFrom(toks, i, st) ==
    IF i > Len(toks) THEN Statement_new
    ELSE LET t == toks[i] IN
    IF t = ";" THEN [st EXCEPT !.rest = SubSeq(toks, i + 1, Len(toks))]
    ELSE IF t \in {"generate", "begin"}
            \/ (st.tokens # <<>> /\ st.tokens[1] = "when" /\ t = "=>")
    THEN [st EXCEPT !.tokens = Append(@, t), !.rest = SubSeq(toks, i + 1, Len(toks))]
    ELSE IF get_identifier(t) /\ i + 1 <= Len(toks) /\ toks[i + 1] = "."
    THEN IF i + 2 <= Len(toks) /\ get_identifier(toks[i + 2])
         THEN ComposeFrom(toks, i + 2,
                [st EXCEPT !.tokens = @ \o <<t, ".">>,
                           !.refs = Append(@, ResReference(t, toks[i + 2]))])
         ELSE ComposeFrom(toks, i + 2, [st EXCEPT !.tokens = @ \o <<t, ".">>])
    ELSE ComposeFrom(toks, i + 1, [st EXCEPT !.tokens = Append(@, t)])

compose_statement(toks) == ComposeFrom(toks, 1, Statement_new)

\* a token stream is handed to compose_statement: identifiers, dots, commas
\* and `all`, ended by the terminator, by a breaking keyword, by the terminator
\* with another statement behind it, or by the end of the file
InitStatement ==
    /\ \E k \in 0..MaxTokens :
        \E body \in [1..k -> TokenIdens \cup {".", ",", "all"}],
           e \in {<<";">>, <<"begin">>, <<";", "a", ".", "b", ";">>, <<>>} :
            parser = [tokens |-> body \o e, statement |-> Statement_new,
                      items |-> <<>>, step |-> "tokens"]
    /\ slot = IdleSlot
    /\ lookup = IdleLookup
    /\ files = SingleEntity
    /\ plan = [top |-> NoIden, bench |-> NoIden, clean |-> FALSE, force |-> FALSE]
    /\ target = TargetIp({})
    /\ cache = EmptyCache
    /\ catalog = CatalogOf(cache)
    /\ FreshDisk
    /\ InitRun

ComposeStatement ==
    /\ parser.step = "tokens"
    /\ parser' = [parser EXCEPT !.statement = compose_statement(parser.tokens), !.step = "composed"]
    /\ UNCHANGED <<pc, plan, files, graph_map, natural_top, bench, top, outcome,
                   min_order, blueprint, target, catalog, processing, result,
                   lockfile, build_dir, blueprint_file, env_file, cache, slot, lookup>>

SpecStatement == InitStatement /\ [][ComposeStatement]_vars

-----------------------------------------------------------------------------
(* VHDLParser::parse (symbol.rs lines 440-497) over the items of one file: a
   free statement at file scope, or the declaration of a design unit with the
   statements written inside it *)

\* number of items of the file
MaxItems == 4

Item(kind, name, owner, inner, edges) ==
    [kind |-> kind, name |-> name, owner |-> owner, inner |-> inner, edges |-> edges]

\* what a file may hold: `use a.b;` and `use b.a;` at file scope; the entities
\* a and b (with ports), an architecture of a, the package c, a body of c with
\* no statement or with an assignment that names a.b or b.a, the context ctx
\* with a use clause, and the configuration cfg of a
FileItems ==
    {Item("statement", NoIden, NoIden, <<<<"use", "a", ".", "b", ";">>>>, <<>>),
     Item("statement", NoIden, NoIden, <<<<"use", "b", ".", "a", ";">>>>, <<>>),
     Item("entity", "a", NoIden, <<>>, <<>>),
     Item("entity", "b", NoIden, <<>>, <<>>),
     Item("architecture", "rtl", "a", <<>>, <<>>),
     Item("package", "c", NoIden, <<>>, <<>>),
     Item("package_body", NoIden, "c", <<>>, <<>>),
     Item("package_body", NoIden, "c", <<<<"a", ":=", "a", ".", "b", ";">>>>, <<>>),
     Item("package_body", NoIden, "c", <<<<"a", ":=", "b", ".", "a", ";">>>>, <<>>),
     Item("context", "ctx", NoIden, <<<<"use", "a", ".", "b", ";">>>>, <<>>),
     Item("configuration", "cfg", "a", <<>>, <<>>)}

\* the references of the statements of a declarative or statement part
\* (parse_declaration and parse_body, lines 1205-1213 and 1346-1349)
InnerRefs(inner) ==
    FoldLeft(LAMBDA acc, st : acc \o compose_statement(st).refs, <<>>, inner)

\* parse_context_declaration (lines 674-691): the first token of every
\* statement is taken before the statement is composed
ContextRefs(inner) ==
    FoldLeft(LAMBDA acc, st : acc \o compose_statement(Tail(st)).refs, <<>>, inner)

\* the symbol of one declaration: Entity::from_tokens (lines 252-276),
\* parse_architecture (919-934), parse_package_declaration (602-644),
\* parse_package_body (732-751, the result of parse_body is dropped),
\* parse_context (649-656), parse_configuration (817-854)
parse_unit(it) ==
    IF it.kind = "entity" THEN Sym("entity", it.name, NoIden, <<"p">>, <<>>, <<>>)
    ELSE IF it.kind = "architecture"
    THEN Sym("architecture", it.name, it.owner, <<>>, it.edges, InnerRefs(it.inner))
    ELSE IF it.kind = "package" THEN Sym("package", it.name, NoIden, <<>>, <<>>, <<>>)
    ELSE IF it.kind = "package_body" THEN Sym("package_body", NoIden, it.owner, <<>>, <<>>, <<>>)
    ELSE IF it.kind = "context"
    THEN Sym("context", it.name, NoIden, <<>>, <<>>, ContextRefs(it.inner))
    ELSE Sym("configuration", it.name, it.owner, <<>>, it.edges, <<>>)

\* lines 446-494: the references of free statements are collected in
\* global_refs; an entity, architecture, package, package body or context
\* takes them with add_refs, which clears them; a configuration does not
parse(items) ==
    FoldLeft(LAMBDA acc, it :
                IF it.kind = "statement"
                THEN [acc EXCEPT !.pool = @ \o compose_statement(Tail(it.inner[1])).refs]
                ELSE IF it.kind = "configuration"
                THEN [acc EXCEPT !.symbols = Append(@, parse_unit(it))]
                ELSE [acc EXCEPT !.symbols = Append(@, add_refs(parse_unit(it), acc.pool)),
                                 !.pool = <<>>],
             [symbols |-> <<>>, pool |-> <<>>], items).symbols

\* the text of the IP's one VHDL file, in which no unit is declared twice,
\* planned without options
InitParse ==
    /\ \E k \in 0..MaxItems : \E items \in [1..k -> FileItems] :
            /\ \A i, j \in DOMAIN items :
                    (i # j /\ items[i].kind = items[j].kind /\ items[i].kind # "statement") =>
                        items[i].name # items[j].name
            /\ parser = [tokens |-> <<>>, statement |-> Statement_new,
                         items |-> items, step |-> "source"]
    /\ files = [k \in FileIds |-> [path |-> AllPaths[k], symbols |-> <<>>]]
    /\ plan = [top |-> NoIden, bench |-> NoIden, clean |-> FALSE, force |-> FALSE]
    /\ target = TargetIp({})
    /\ cache = EmptyCache
    /\ catalog = CatalogOf(cache)
    /\ slot = IdleSlot
    /\ lookup = IdleLookup
    /\ FreshDisk
    /\ pc = "read"
    /\ graph_map = EmptyGraph
    /\ natural_top = 0
    /\ bench = 0
    /\ top = 0
    /\ outcome = Running
    /\ min_order = <<>>
    /\ blueprint = <<>>
    /\ processing = <<>>
    /\ result = <<>>

\* plan.rs lines 245-247: the file is read and parsed into symbols (every
\* build_full_graph reads the same text)
ReadSource ==
    /\ pc = "read"
    /\ pc' = "clean"
    /\ files' = [files EXCEPT ![1].symbols = parse(parser.items)]
    /\ UNCHANGED <<plan, target, catalog, cache, slot, parser, lookup, graph_map, selectVars,
                   outcome, min_order, blueprint, resolveVars, diskVars>>

SpecParse == InitParse /\ [][ReadSource \/ Next]_vars

-----------------------------------------------------------------------------
(* IpLevel::get (catalog.rs lines 114-128) on the level of one name *)

\* the installations or downloads of one name: any versions, in any order of
\* the directory listing
LevelLists ==
    UNION {{[k \in DOMAIN o |-> Ip(IpNames[1], Versions[o[k]], {})] : o \in Orderings(S)} :
                S \in SUBSET DOMAIN Versions}

\* any level is asked, with or without downloads, for the latest version or
\* for a partial or full version
InitLookup ==
    /\ \E ins \in LevelLists, dls \in LevelLists, cd \in BOOLEAN,
          v \in {Latest, Specific(<<1>>), Specific(<<2>>), Specific(<<3>>),
                 Specific(<<1, 2>>), Specific(<<1, 0, 0>>)} :
            lookup = [level |-> IpLevel(ins, dls), check_downloads |-> cd, version |-> v,
                      found |-> NoIp, step |-> "query"]
    /\ slot = IdleSlot
    /\ parser = IdleParser
    /\ files = SingleEntity
    /\ plan = [top |-> NoIden, bench |-> NoIden, clean |-> FALSE, force |-> FALSE]
    /\ target = TargetIp({})
    /\ cache = EmptyCache
    /\ catalog = CatalogOf(cache)
    /\ FreshDisk
    /\ InitRun

Lookup ==
    /\ lookup.step = "query"
    /\ lookup' = [lookup EXCEPT
                    !.found = get(lookup.level, lookup.check_downloads, lookup.version),
                    !.step = "done"]
    /\ UNCHANGED <<pc, plan, files, graph_map, natural_top, bench, top, outcome,
                   min_order, blueprint, target, catalog, processing, result,
                   lockfile, build_dir, blueprint_file, env_file, cache, slot, parser>>

SpecLookup == InitLookup /\ [][Lookup]_vars

-----------------------------------------------------------------------------
(* Plan::run over what an earlier invocation left on disk *)

\* what an earlier plan of the project left: the lock file, the build
\* directory, and in it the blueprint and the sidecar of a design that was
\* kept in d.vhd
PreviousDisk ==
    /\ lockfile = File(LockEntries(<<TargetIp({})>>))
    /\ build_dir = TRUE
    /\ blueprint_file = File(BlueprintRows(<<AllPaths[4]>>))
    /\ env_file = File(<<Environment("d", "")>>)

\* projects kept in one file, planned with or without --clean, on a fresh
\* disk or after an earlier plan, with no dependency or with one that the
\* catalog does not know
InitRerun ==
    /\ \E decl \in [IdenSet -> UnitDecls({1}, {{}}, {{}})] : files = SourceFiles(decl)
    /\ plan \in [top : {NoIden}, bench : {NoIden}, clean : BOOLEAN, force : {FALSE}]
    /\ \E deps \in {{}, {Dependency(IpNames[1], Latest)}} : target = TargetIp(deps)
    /\ cache = EmptyCache
    /\ catalog = CatalogOf(cache)
    /\ slot = IdleSlot
    /\ parser = IdleParser
    /\ lookup = IdleLookup
    /\ FreshDisk \/ PreviousDisk
    /\ InitRun

SpecRerun == InitRerun /\ [][Next]_vars

-----------------------------------------------------------------------------
(* Properties *)

\* the unit graph has been built
GraphBuilt == pc \notin {"clean", "graph"} /\ ~ graph_map.panicked

\* neither --top nor --bench was given
NoOptions == plan.top = NoIden /\ plan.bench = NoIden

\* top and bench selection is over, with a selection or a failure
SelectionOver == pc \notin {"clean", "graph", "bench", "top"}

\* the invocation has not failed
NotFailed == outcome.status \in {"running", "ok"}

\* the resolver has returned its list
Resolved == pc \in {"lock", "sort", "mkdir", "create", "write", "env"} \/ (pc = "done" /\ outcome = Success)

\* the topological order has been computed
Sorted == pc \in {"mkdir", "create", "write", "env"} \/ (pc = "done" /\ outcome = Success)

IsEntity(g, n) == g.nodes[n].sym.kind = "entity"
HasPorts(g, n) == g.nodes[n].sym.ports # <<>>
IsTestbench(g, n) == IsEntity(g, n) /\ ~ HasPorts(g, n)
Named(g, iden) == {n \in NodeIds(g) : g.keys[n] = iden}
KeysOf(g, S) == {g.keys[n] : n \in S}

\* the nodes nothing depends on
RootSet(g) == {n \in NodeIds(g) : \A m \in NodeIds(g) : <<n, m>> \notin g.edges}

EntityPredecessors(g, n) == {m \in NodeIds(g) : <<m, n>> \in g.edges /\ IsEntity(g, m)}
TestbenchSuccessors(g, n) == {m \in NodeIds(g) : <<n, m>> \in g.edges /\ IsTestbench(g, m)}

\* there is a path of edges from m to n (of length 0 when m = n)
PathExists(g, m, n) ==
    \/ m = n
    \/ \E k \in 2..(Len(g.keys) + 1) : \E p \in [1..k -> NodeIds(g)] :
        /\ p[1] = m
        /\ p[k] = n
        /\ \A i \in 1..(k - 1) : <<p[i], p[i + 1]>> \in g.edges

AncestorSet(g, n) == {m \in NodeIds(g) : PathExists(g, m, n)}

\* no node of S lies on a cycle (a self-loop included)
AcyclicOn(g, S) ==
    \A n \in S : ~ \E m \in NodeIds(g) : <<n, m>> \in g.edges /\ PathExists(g, m, n)

NoSelfLoops(g) == \A n \in NodeIds(g) : <<n, n>> \notin g.edges

EnvWritten(top_name, bench_name) ==
    env_file.exists => env_file.content = <<Environment(top_name, bench_name)>>

\* the graph the order is computed on, and the highest point in it
FullGraph == build_full_graph(files)
HighestNode == IF bench # 0 THEN bench ELSE top

-----------------------------------------------------------------------------
(* Blueprint row order *)

BlueprintWritten == pc = "env" \/ (pc = "done" /\ outcome = Success)

RowsOf(path) == {i \in DOMAIN blueprint_file.content : blueprint_file.content[i].file = path}
FirstRow(path) == CHOOSE i \in RowsOf(path) : \A j \in RowsOf(path) : i <= j

\* every unit of S is kept in one file (the architecture next to its entity)
OneFilePerUnit(g, S) == \A n \in S : Len(g.nodes[n].files) = 1

\* file a must come before file b: a unit of a is depended on by a unit of b
FileMustPrecede(g, S) ==
    {<<g.nodes[e[1]].files[1], g.nodes[e[2]].files[1]>> : e \in g.edges \cap (S \X S)}
        \ {<<files[k].path, files[k].path>> : k \in DOMAIN files}

\* some order of the files honours every pair of FileMustPrecede
FileOrderExists(g, S) ==
    \E rank \in [DOMAIN files -> DOMAIN files] :
        \A k, l \in DOMAIN files :
            <<files[k].path, files[l].path>> \in FileMustPrecede(g, S) => rank[k] < rank[l]

\* C1: in the written blueprint, whenever unit(a) -> unit(b) for two files a and
\* b, the row of a comes before the row of b. Stated for the projects whose
\* units each sit in one file (files may hold several units), whose unit graph
\* is acyclic and whose files can be ordered at all; "the row" of a file is its
\* first row.
C1_RowOrder ==
    BlueprintWritten =>
        LET g == FullGraph
            S == AncestorSet(g, HighestNode)
        IN (AcyclicOn(g, S) /\ OneFilePerUnit(g, S) /\ FileOrderExists(g, S)) =>
            \A pair \in FileMustPrecede(g, S) :
                /\ RowsOf(pair[1]) # {}
                /\ RowsOf(pair[2]) # {}
                /\ FirstRow(pair[1]) < FirstRow(pair[2])

-----------------------------------------------------------------------------
(* The topological order *)

\* min_order holds exactly the ancestors of hp (hp included), each once, and
\* places u before v for every edge u -> v among them
SortProperty(g, hp) ==
    LET S == AncestorSet(g, hp) IN
    /\ Range(min_order) = S
    /\ Len(min_order) = Cardinality(S)
    /\ \A u, v \in S : <<u, v>> \in g.edges => IndexOf(min_order, u) < IndexOf(min_order, v)

\* C2 (as amended): for every unit graph in which the ancestors of the highest
\* point lie on no cycle, the order plan computes holds exactly the highest
\* point and its ancestors, each once, with u before v for every edge u -> v
\* among them; the highest point is the bench if one was selected, else the top.
C2_SortFromHighestPoint ==
    Sorted =>
        (AcyclicOn(FullGraph, AncestorSet(FullGraph, HighestNode))
            => SortProperty(FullGraph, HighestNode))

\* C2 reached: a bench was selected, it has two ancestors and the order is not
\* the insertion order
C2_SortedFromBench ==
    /\ Sorted
    /\ bench # 0
    /\ bench # top
    /\ AcyclicOn(FullGraph, AncestorSet(FullGraph, HighestNode))
    /\ Len(min_order) = 3
    /\ min_order # <<1, 2, 3>>
    /\ min_order[3] = bench

\* C2 as stated: the same for every unit graph, cyclic ones included (graphs
\* with an edge from a unit to itself are left out here)
C2_SortEveryGraph ==
    Sorted => (NoSelfLoops(FullGraph) => SortProperty(FullGraph, HighestNode))

-----------------------------------------------------------------------------
(* Top and bench selection *)

\* C3: without --top and --bench, a single root that is an entity with ports
\* becomes the top, no bench is selected, ORBIT_BENCH is written empty and the
\* plan does not fail.
C3_NaturalTop ==
    (GraphBuilt /\ NoOptions) =>
        \A r \in NodeIds(graph_map) :
            (RootSet(graph_map) = {r} /\ IsEntity(graph_map, r) /\ HasPorts(graph_map, r)) =>
                /\ NotFailed
                /\ pc # "bench" => bench = 0
                /\ SelectionOver => top = r
                /\ EnvWritten(graph_map.keys[r], "")

\* C3 reached: a plan that ended with the natural top and no bench
C3_NaturalTopPlanned ==
    /\ GraphBuilt /\ NoOptions
    /\ pc = "done" /\ outcome = Success
    /\ \E r \in NodeIds(graph_map) :
        /\ RootSet(graph_map) = {r} /\ IsEntity(graph_map, r) /\ HasPorts(graph_map, r)
        /\ top = r
    /\ bench = 0
    /\ env_file.exists
    /\ Len(graph_map.keys) > 1

\* C4: without --top and --bench, a single root that is an entity without ports
\* becomes the bench, and when the bench has exactly one entity predecessor that
\* entity becomes the top; ORBIT_TOP and ORBIT_BENCH name them.
C4_BenchRoot ==
    (GraphBuilt /\ NoOptions) =>
        \A r, e \in NodeIds(graph_map) :
            (/\ RootSet(graph_map) = {r}
             /\ IsTestbench(graph_map, r)
             /\ EntityPredecessors(graph_map, r) = {e}) =>
                /\ NotFailed
                /\ pc # "bench" => bench = r
                /\ SelectionOver => top = e
                /\ EnvWritten(graph_map.keys[e], graph_map.keys[r])

\* C4 reached: a plan that ended with the root testbench as bench and its one
\* entity predecessor as top, the bench having a package predecessor too
C4_BenchRootPlanned ==
    /\ GraphBuilt /\ NoOptions
    /\ pc = "done" /\ outcome = Success
    /\ \E r, e \in NodeIds(graph_map) :
        /\ RootSet(graph_map) = {r} /\ IsTestbench(graph_map, r)
        /\ EntityPredecessors(graph_map, r) = {e}
        /\ \E q \in NodeIds(graph_map) : <<q, r>> \in graph_map.edges /\ ~ IsEntity(graph_map, q)
        /\ bench = r /\ top = e
    /\ env_file.exists

\* the outcome --top must have: the three errors, or the named unit as top
TopOutcome ==
    LET named == Named(graph_map, plan.top) IN
    /\ named = {} => outcome = Failed(PlanError("UnknownEntity", plan.top))
    /\ \A n \in named :
        /\ ~ IsEntity(graph_map, n) => outcome = Failed(PlanError("BadEntity", plan.top))
        /\ IsTestbench(graph_map, n) => outcome = Failed(PlanError("BadTop", plan.top))
        /\ (IsEntity(graph_map, n) /\ HasPorts(graph_map, n)) =>
            /\ NotFailed => top = n
            /\ outcome.status = "error" => outcome.err.kind = "Ambiguous"

\* --bench is absent or names a testbench
BenchOptionAccepted ==
    plan.bench = NoIden \/ \E n \in Named(graph_map, plan.bench) : IsTestbench(graph_map, n)

BenchError ==
    /\ outcome.status = "error"
    /\ outcome.err.kind \in {"UnknownEntity", "BadEntity", "BadTestbench"}
    /\ outcome.err.iden = plan.bench

C7_BenchFromTop ==
    (GraphBuilt /\ SelectionOver /\ plan.top # NoIden /\ plan.bench = NoIden) =>
        \A n \in Named(graph_map, plan.top) :
            (IsEntity(graph_map, n) /\ HasPorts(graph_map, n)) =>
                LET candidates == TestbenchSuccessors(graph_map, n) IN
                /\ candidates = {} => NotFailed /\ top = n /\ bench = 0
                /\ \A m \in candidates :
                    candidates = {m} => NotFailed /\ top = n /\ bench = m
                /\ Cardinality(candidates) > 1 =>
                    /\ outcome.status = "error"
                    /\ outcome.err.kind = "Ambiguous"
                    /\ Range(outcome.err.list) = KeysOf(graph_map, candidates)

\* C8: without --top and --bench, more than one root, all of them testbenches,
\* fails with Ambiguous("testbenches", list), the list holding every root.
C8_AmbiguousRoots ==
    (GraphBuilt /\ pc # "bench" /\ NoOptions) =>
        LET roots == RootSet(graph_map) IN
        (Cardinality(roots) > 1 /\ \A r \in roots : IsTestbench(graph_map, r)) =>
            /\ outcome.status = "error"
            /\ outcome.err.kind = "Ambiguous"
            /\ outcome.err.iden = "testbenches"
            /\ Range(outcome.err.list) = KeysOf(graph_map, roots)
            /\ Len(outcome.err.list) = Cardinality(roots)

\* C8 reached: plan failed on two testbench roots, a third unit being no root
C8_TwoTestbenchRoots ==
    /\ GraphBuilt /\ NoOptions
    /\ pc = "done" /\ outcome.status = "error"
    /\ Cardinality(RootSet(graph_map)) = 2
    /\ Len(graph_map.keys) = 3
    /\ \A r \in RootSet(graph_map) : IsTestbench(graph_map, r)

PlanningErrors ==
    {"UnknownUnit", "UnknownEntity", "BadEntity", "BadTop", "BadTestbench", "Ambiguous"}

\* C9: whatever the unit graph and the options, selection either selects a top
\* (with or without a bench) or fails with an error of the planning set; it
\* never aborts.
C9_SelectionNeverAborts ==
    (GraphBuilt /\ SelectionOver) =>
        /\ outcome.status # "panic"
        /\ outcome.status = "error" => outcome.err.kind \in PlanningErrors
        /\ NotFailed => top # 0

-----------------------------------------------------------------------------
(* Dependency resolution *)

\* the installations of the catalog that satisfy the dependency d
Candidates(d) ==
    IF d.name \in DOMAIN catalog
    THEN {ip \in Range(catalog[d.name].installs) : is_compatible(d.version.v, ip.version)}
    ELSE {}

Lowest(ips) == CHOOSE ip \in ips : \A other \in ips : ~ VersionGreater(ip.version, other.version)

LockEntryOf(ip) == [name |-> ip.name, version |-> ip.version]

\* C10: for every dependency with a version requirement, the resolved list and
\* the lockfile hold the lowest-versioned installation that satisfies it.
C10_MinimumVersionSelected ==
    Resolved =>
        \A i \in DOMAIN result : \A d \in result[i].deps :
            (d.version.kind = "Specific" /\ Candidates(d) # {}) =>
                /\ Lowest(Candidates(d)) \in Range(result)
                /\ lockfile.exists => LockEntryOf(Lowest(Candidates(d))) \in Range(lockfile.content)

\* the dependencies met while resolving that no installation satisfies
Unsatisfied ==
    {d \in UNION {result[i].deps : i \in DOMAIN result} :
        IF d.name \in DOMAIN catalog
        THEN get(catalog[d.name], TRUE, d.version) = NoIp
        ELSE TRUE}

\* C11: a dependency that cannot be satisfied (its name is not in the catalog,
\* or no version on disk fits) makes resolution fail with an error that names
\* the IP, UnknownIp or UnknownVersion; the process does not abort.
C11_UnsatisfiedIsAnError ==
    (pc = "done" /\ Unsatisfied # {}) =>
        /\ outcome.status = "error"
        /\ outcome.err.kind \in {"UnknownIp", "UnknownVersion"}
        /\ outcome.err.iden \in {d.name : d \in Unsatisfied}

\* C12: the list the resolver returns holds the target and every resolved IP
\* at most once, also when two IPs depend on the same IP.
C12_ResolvedOnce ==
    Resolved =>
        \A i, j \in DOMAIN result :
            (result[i].name = result[j].name /\ result[i].version = result[j].version) => i = j

\* a dependency table read in the order of the names
DepsByName(deps) ==
    LET names == SelectSeq(IpNames, LAMBDA n : \E d \in deps : d.name = n)
    IN [i \in DOMAIN names |-> CHOOSE d \in deps : d.name = names[i]]

\* the resolver run again on the same catalog, every dependency table read in
\* the order of the names; it gives up after `fuel` rounds
RECURSIVE ResolveInOrder(_, _, _)
ResolveInOrder(stack, res, fuel) ==
    IF stack = <<>> \/ fuel = 0 THEN res
    ELSE LET ip == stack[Len(stack)]
             r == VisitDependencies(catalog, SubSeq(stack, 1, Len(stack) - 1), DepsByName(ip.deps))
         IN IF r.res.status # "running" THEN Append(res, ip)
            ELSE ResolveInOrder(r.stack, Append(res, ip), fuel - 1)

SecondRun == ResolveInOrder(<<target>>, <<>>, MaxBuild + 1)

Selection(build_list) == {LockEntryOf(build_list[i]) : i \in DOMAIN build_list}

\* C13: for a fixed catalog and manifest, a resolution that returns selects the
\* same (name, version) pairs and writes the same lockfile as any other run,
\* whatever the order in which the dependency tables are iterated.
C13_ResolverDeterministic ==
    Resolved =>
        /\ Selection(result) = Selection(SecondRun)
        /\ lockfile.exists => lockfile.content = LockEntries(SecondRun)

\* C13 reached: a lockfile written by a run that visited two dependencies in
\* another order than the second run
C13_OrdersDiffer ==
    /\ Resolved
    /\ lockfile.exists
    /\ Cardinality(target.deps) = 2
    /\ result # SecondRun
    /\ Len(lockfile.content) = 3

-----------------------------------------------------------------------------
(* The artifacts on disk; every run of these specifications starts on a disk
   without lockfile, build directory, blueprint and env sidecar *)

\* C14: the lockfile is the last artifact plan writes: once it is on disk, the
\* blueprint and the env sidecar of this invocation are on disk too, so a plan
\* interrupted before its end leaves no new lockfile.
C14_LockfileWrittenLast ==
    lockfile.exists =>
        /\ blueprint_file = File(blueprint)
        /\ env_file.exists

\* C15: a reader of the blueprint file sees, at every point of the invocation,
\* the file as it was before (here: no file) or the complete new content.
C15_BlueprintNeverPartial ==
    \/ blueprint_file = NoFile
    \/ blueprint_file = File(blueprint) /\ blueprint # <<>>

\* C16: the written blueprint holds one row per HDL file: no file path is on
\* two rows, also when the file declares several primary units of the order.
C16_OneRowPerFile ==
    BlueprintWritten => \A path \in Range(AllPaths) : Cardinality(RowsOf(path)) <= 1

\* the tier lists of one level of the catalog
TierLists(lvl) == {lvl.installs, lvl.downloads}

\* C17: in every catalog state that Plan::exec reaches through the builder
\* operations, no tier list holds two IPs with the same name and version.
C17_NoDuplicateInTier ==
    \A n \in DOMAIN catalog : \A tier \in TierLists(catalog[n]) :
        \A i, j \in DOMAIN tier :
            (tier[i].name = tier[j].name /\ tier[i].version = tier[j].version) => i = j

\* C18: for every package name (also one that contains '-'), version and
\* checksum, parsing the text of the slot built from them gives a slot with
\* that name, that version and the first 10 characters of the checksum.
C18_SlotRoundTrip ==
    slot.step = "parsed" =>
        /\ slot.parsed # NoSlot
        /\ slot.parsed.name = slot.input.name
        /\ slot.parsed.version = slot.input.version
        /\ slot.parsed.rem = SubSeq(slot.input.rem, 1, 10)

\* a name with '-' and a version with a two-digit part came back from the text
C18_DashedNameParsed ==
    /\ slot.step = "parsed"
    /\ "-" \in Range(slot.input.name)
    /\ \E i \in 1..3 : slot.input.version[i] >= 10
    /\ Len(slot.text) = Len(slot.input.name) + Len(VersionToString(slot.input.version)) + 12
    /\ slot.parsed.name = slot.input.name

-----------------------------------------------------------------------------
(* The nodes and edges of the unit graph *)

AllSymbols == {SymbolsOf(files)[i].sym : i \in DOMAIN SymbolsOf(files)}

\* the identifiers of the primary design units parsed from the files
PrimaryUnits ==
    {sym.name : sym \in {x \in AllSymbols : x.kind \in {"entity", "package", "context", "configuration"}}}

\* C19: after build_full_graph the nodes are exactly the primary design units:
\* every entity, package, context and configuration has a node keyed by its
\* identifier, and no architecture or package body has a node.
C19_NodesArePrimaryUnits ==
    GraphBuilt =>
        /\ Range(graph_map.keys) = PrimaryUnits
        /\ \A n \in NodeIds(graph_map) :
                graph_map.nodes[n].sym.kind \notin {"architecture", "package_body"}

\* the graph has an edge between the nodes keyed `from` and `to`
EdgeByKey(g, from, to) ==
    \E i, j \in NodeIds(g) : g.keys[i] = from /\ g.keys[j] = to /\ <<i, j>> \in g.edges

SymbolPairs == {SymbolsOf(files)[i] : i \in DOMAIN SymbolsOf(files)}
Architectures == {e \in SymbolPairs : e.sym.kind = "architecture"}
ConfigurationNames == {e.sym.name : e \in {x \in SymbolPairs : x.sym.kind = "configuration"}}

\* the file that declares the primary unit `name`
FileOfUnit(name) ==
    (CHOOSE e \in SymbolPairs :
        e.sym.name = name /\ e.sym.kind \in {"entity", "package", "context", "configuration"}).file

\* C20: every unit an architecture instantiates or names in a configuration
\* specification has an edge to the architecture's owner entity, and the file
\* of a configuration named that way is placed before the architecture's file.
C20_ArchitectureEdges ==
    /\ GraphBuilt =>
        \A arch \in Architectures : \A d \in Range(arch.sym.edges) \cap PrimaryUnits :
            EdgeByKey(graph_map, d, arch.sym.owner)
    /\ BlueprintWritten =>
        \A arch \in Architectures : \A d \in Range(arch.sym.edges) \cap ConfigurationNames :
            RowsOf(arch.file) # {} =>
                /\ RowsOf(FileOfUnit(d)) # {}
                /\ FileOfUnit(d) # arch.file => FirstRow(FileOfUnit(d)) < FirstRow(arch.file)

-----------------------------------------------------------------------------
(* Reference edges *)

\* the files with every reference's prefix replaced by "lib"
WithoutPrefixes(fs) ==
    [k \in DOMAIN fs |->
        [fs[k] EXCEPT !.symbols =
            [i \in DOMAIN @ |->
                [@[i] EXCEPT !.refs = [r \in DOMAIN @ |-> ResReference("lib", @[r].suffix)]]]]]

\* C21: reference edges are matched by suffix alone: m -> u is an edge if and
\* only if a reference of u has the key of m as its suffix, whatever the prefix.
C21_SuffixAloneMatches ==
    GraphBuilt =>
        /\ \A i, j \in NodeIds(graph_map) :
                <<i, j>> \in graph_map.edges <=>
                    \E r \in DOMAIN graph_map.nodes[j].sym.refs :
                        graph_map.nodes[j].sym.refs[r].suffix = graph_map.keys[i]
        /\ graph_map.edges = build_full_graph(WithoutPrefixes(files)).edges

\* a unit with two references of one suffix and two prefixes, one prefix being
\* the key of a third node, got one edge, from the node the suffix names
C21_CollidingPrefixes ==
    /\ GraphBuilt
    /\ \E i, j, k \in NodeIds(graph_map) :
        /\ graph_map.keys[k] = "a" /\ k # i /\ k # j
        /\ <<i, j>> \in graph_map.edges
        /\ <<k, j>> \notin graph_map.edges
        /\ Len(graph_map.nodes[j].sym.refs) = 2
        /\ graph_map.nodes[j].sym.refs[2] = ResReference("a", graph_map.keys[i])

-----------------------------------------------------------------------------
(* References of a statement *)

\* where the statement ends: the first terminator or breaking keyword (0: none)
StatementEnd(toks) ==
    IF \E i \in DOMAIN toks : toks[i] \in {";", "begin"}
    THEN CHOOSE i \in DOMAIN toks :
            toks[i] \in {";", "begin"} /\ \A j \in 1..(i - 1) : toks[j] \notin {";", "begin"}
    ELSE 0

\* the places of the statement where an identifier is followed by a dot and
\* another identifier
DottedAt(toks) ==
    {i \in 1..(StatementEnd(toks) - 3) :
        toks[i] \in TokenIdens /\ toks[i + 1] = "." /\ toks[i + 2] \in TokenIdens}

\* C24: the statement carries one reference (prefix, suffix), in source order,
\* for every identifier that is followed by `.` and another identifier;
\* chains give one per link, `.all` gives none, duplicates are kept.
C24_ReferencePerDottedName ==
    (parser.step = "composed" /\ StatementEnd(parser.tokens) # 0) =>
        LET at == SortedSeq(DottedAt(parser.tokens)) IN
        parser.statement.refs =
            [k \in DOMAIN at |-> ResReference(parser.tokens[at[k]], parser.tokens[at[k] + 2])]

\* a chain with a repeated link was composed into three
\* references, the statement behind the terminator left alone
C24_ChainComposed ==
    /\ parser.step = "composed"
    /\ parser.tokens = <<"a", ".", "b", ".", "a", ".", "b", ";", "a", ".", "b", ";">>
    /\ parser.statement.refs = <<ResReference("a", "b"), ResReference("b", "a"), ResReference("a", "b")>>
    /\ parser.statement.rest = <<"a", ".", "b", ";">>

-----------------------------------------------------------------------------
(* References of package bodies and of free statements *)

\* the file has been parsed and the graph built from its symbols
ParsedGraph == parser.step = "source" /\ pc \notin {"read", "clean", "graph"}

PackageBodyItems == {parser.items[i] : i \in {j \in DOMAIN parser.items : parser.items[j].kind = "package_body"}}

\* the suffixes of the references written in the statements of an item
WrittenSuffixes(it) ==
    {InnerRefs(it.inner)[r].suffix : r \in DOMAIN InnerRefs(it.inner)}

\* C22: the references written inside a package body reach the owning
\* package: the package has an edge from every node one of them names; a body
\* whose owner is not a node adds nothing and raises no error.
C22_BodyReferencesReachPackage ==
    ParsedGraph =>
        \A body \in PackageBodyItems :
            IF body.owner \in Range(graph_map.keys)
            THEN graph_map.panicked \/
                 \A x \in WrittenSuffixes(body) \cap Range(graph_map.keys) :
                     EdgeByKey(graph_map, x, body.owner)
            ELSE graph_map.panicked =>
                    \E i \in DOMAIN parser.items :
                        /\ parser.items[i].kind \in {"architecture", "configuration"}
                        /\ parser.items[i].owner \notin Range(graph_map.keys)

\* the kinds of primary units
PrimaryKinds == {"entity", "package", "context", "configuration"}

\* the symbols of a file when the references of free statements are handed,
\* all of them and once, to the next primary unit of the file
FlushedIntoNextPrimary(items) ==
    FoldLeft(LAMBDA acc, it :
                IF it.kind = "statement"
                THEN [acc EXCEPT !.pool = @ \o compose_statement(Tail(it.inner[1])).refs]
                ELSE IF it.kind \in PrimaryKinds
                THEN [acc EXCEPT !.symbols = Append(@, [parse_unit(it) EXCEPT !.refs = @ \o acc.pool]),
                                 !.pool = <<>>]
                ELSE [acc EXCEPT !.symbols = Append(@, parse_unit(it))],
             [symbols |-> <<>>, pool |-> <<>>], items).symbols

\* C23: the references of free statements at file scope are handed in full to
\* the next primary unit declared in the file, whatever its kind (entity,
\* package, context or configuration), and to no other unit.
C23_PoolFlushedIntoNextPrimary ==
    (parser.step = "source" /\ pc # "read") =>
        files[1].symbols = FlushedIntoNextPrimary(parser.items)

-----------------------------------------------------------------------------
(* Lookup of a version in a level *)

\* the IPs of a list that fit the version asked for
Fitting(space) ==
    {space[i] : i \in {j \in DOMAIN space :
        lookup.version.kind = "Latest" \/ is_compatible(lookup.version.v, space[j].version)}}

\* ip is one of S and none of S has a higher version
HighestOf(ip, S) == ip \in S /\ \A other \in S : ~VersionGreater(other.version, ip.version)

-----------------------------------------------------------------------------
(* The lockfile fast path *)

\* the lockfile records the target at the version of the manifest
LockMatches ==
    /\ lockfile.exists
    /\ [name |-> target.name, version |-> target.version] \in Range(lockfile.content)

\* the catalog holds an IP of that name at that version
Held(name, version) ==
    /\ name \in DOMAIN catalog
    /\ \E ip \in Range(catalog[name].installs) \cup Range(catalog[name].downloads) :
            ip.version = version

TimesInstalled(name, version) ==
    IF name \in DOMAIN catalog
    THEN Cardinality({k \in DOMAIN catalog[name].installs : catalog[name].installs[k].version = version})
    ELSE 0

-----------------------------------------------------------------------------
(* Termination of the resolver *)

\* C27: dependency resolution terminates for every catalog and manifest: once
\* the loop over the work stack is entered it is left, with an empty stack or
\* with an error, also when IPs require each other or an IP requires itself.
C27_ResolutionTerminates == (pc = "pop") ~> (pc # "pop")

-----------------------------------------------------------------------------
(* The selected top *)

\* C28: whenever a top is selected, by --top, as the natural top or from the
\* bench's predecessors, it is an entity with ports; a testbench is never
\* written to ORBIT_TOP.
C28_TopHasPorts ==
    /\ top # 0 =>
          /\ as_entity(graph_map.nodes[top].sym)
          /\ ~ is_testbench(graph_map.nodes[top].sym)
    /\ env_file.exists =>
          \A i \in DOMAIN graph_map.nodes :
              (graph_map.keys[i] = env_file.content[1].ORBIT_TOP) => ~ is_testbench(graph_map.nodes[i].sym)

-----------------------------------------------------------------------------
(* The files of the units of the order *)

\* the node a design unit belongs to: its own, or its owner's
NodeKeyOf(sym) == IF IsPrimaryNode(sym) THEN sym.name ELSE sym.owner

\* the keys of the nodes of the sorted order
OrderKeys == {FullGraph.keys[n] : n \in Range(min_order)}

\* C29: every file that declares a design unit belonging to a node of the
\* sorted order has a row in the blueprint: the file of the primary unit, of
\* its architectures and configurations, and of a package body kept in a file
\* other than its package's.
C29_EveryUnitFileHasRow ==
    BlueprintWritten =>
        \A k \in DOMAIN files : \A i \in DOMAIN files[k].symbols :
            NodeKeyOf(files[k].symbols[i]) \in OrderKeys => RowsOf(files[k].path) # {}

-----------------------------------------------------------------------------
(* A failed invocation and the disk *)

\* the four artefacts are as they were when the invocation began: never
\* written, or as the earlier invocation left them
DiskAsBefore == FreshDisk \/ PreviousDisk

\* C30: an invocation that fails with a planning error or a resolution error
\* leaves the build directory, the blueprint, the sidecar and the lockfile as
\* they were before it, also when --clean is given.
C30_FailureLeavesDiskUntouched ==
    (pc = "done" /\ outcome.status = "error") => DiskAsBefore

=============================================================================
